---- MODULE Spec2Model ----
(***************************************************************************)
(* Document processing pipeline of the cai-orc document manager.           *)
(*                                                                         *)
(* The store holds one record per uploaded document.  A process            *)
(* invocation (processDocumentAsync after an upload, processDocument after *)
(* a reprocess request) reads the record once with findById and then works *)
(* on that in-memory copy; every updateXxx method assigns fields of the    *)
(* copy and calls save().  save() validates the modified paths against the *)
(* schema and then writes the modified paths only, so two invocations on   *)
(* the same document interleave at every await and overwrite each other    *)
(* field by field.                                                         *)
(***************************************************************************)
EXTENDS Integers, Sequences, FiniteSets, TLC

(***************************************************************************)
(* Bounds of the model.                                                    *)
(***************************************************************************)
\* Document ids of the store.
MaxDocs == 2

\* Documents uploaded where the pipeline is explored with all its outcomes.
MaxRaced == 1

MaxInvocations == 2

MaxRequests == 2

\* Refused upload requests that are recorded.
MaxRefused == 3

MaxUsers == 3

MaxInits == 3

\* Requests through the permission guard.
MaxAsked == 4

\* Calls of connectToDatabase, mongoose.connect attempts, SIGINT signals.
MaxCalls == 6

MaxAttempts == 3

MaxSigints == 2

DocIds == 1..MaxDocs

ProcIds == 1..MaxInvocations

(***************************************************************************)
(* Schema enumerations.                                                    *)
(***************************************************************************)
DocTypes == {"invoice", "certificate", "resume", "handwritten", "financial_report", "other"}

\* A classification answer (or a PUT body value) that is no member of the enum.
OutsideType == "receipt"

AnyType == DocTypes \cup {OutsideType}

Statuses == {"processing", "completed", "failed"}

\* The keys ParsedDataSchema declares; every other key is dropped (strict schema).
SchemaKeys == {"invoice", "certificate", "resume", "handwritten", "financialReport"}

\* The ParsedDataSchema key that holds the data of a document type.
KeyOf(t) == IF t = "financial_report" THEN "financialReport" ELSE t

(***************************************************************************)
(* Values the remote collaborators and the requests can carry.  E below is *)
(* a record of such sets: the inputs one specification draws from.         *)
(***************************************************************************)
\* Messages of the errors the remote calls throw; the empty one stands for
\* an error without a message.
ErrMsgs == {"timeout", ""}

\* md_results of an OCR answer; the empty text is an answer without text.
OcrTexts == {"textA", "textB", ""}

\* Records the extraction call returns.
Results == {"r1", "r2"}

\* What a PUT body carries: documentType (when given), the key of the one
\* entry of parsedData ("" for the empty object) and the entry's value.
PutTypes == {"certificate", "other", OutsideType}

PutKeys == {"invoice", ""}

PutVals == {"edited"}

\* fileName of a PUT body ("" when the body has none).
PutFileNames == {"", "renamed.pdf"}

\* env.allowedFileTypes and env.maxFileSize (bytes), by their defaults.
allowedFileTypes == {"image/png", "image/jpeg", "image/jpg", "application/pdf"}

maxFileSize == 10485760

\* The file of an upload form: absent, or a File with name, type and size.
NoFile == [given |-> FALSE, name |-> "", type |-> "", size |-> 0]

GoodFile == [given |-> TRUE, name |-> "a.pdf", type |-> "application/pdf", size |-> 1024]

UploadFiles ==
    {NoFile, GoodFile,
     [given |-> TRUE, name |-> "b.png", type |-> "image/png", size |-> maxFileSize],
     [given |-> TRUE, name |-> "c.txt", type |-> "text/plain", size |-> 1024],
     [given |-> TRUE, name |-> "d.pdf", type |-> "application/pdf",
      size |-> maxFileSize + 1]}

\* The message of the error a failing AuditLog.log throws.
AuditErrMsg == "audit write failed"

\* The inputs of the serialized specification: every document type.
SeqInputs ==
    [types |-> DocTypes, cls |-> AnyType, texts |-> OcrTexts, msgs |-> ErrMsgs,
     results |-> Results, docs |-> 1..MaxRaced, files |-> {GoodFile}]

\* The inputs of the interleaved specification: one type with a parser, the
\* type whose key the schema does not declare, the type that is classified.
RaceInputs ==
    [types |-> {"invoice", "other"}, cls |-> {"financial_report", OutsideType},
     texts |-> {"textA", ""}, msgs |-> {"timeout"}, results |-> {"r1"},
     docs |-> 1..MaxRaced, files |-> {GoodFile}]

(***************************************************************************)
(* Optional sub-documents.  An absent value is the record with the flag    *)
(* cleared, so that every field has one shape.                             *)
(***************************************************************************)
NoError == [present |-> FALSE, message |-> "", stage |-> ""]

NoOcr == [present |-> FALSE, mdResults |-> ""]

NoParsed == [present |-> FALSE, key |-> "", val |-> ""]

\* parsedData that is present and has no entry: {}.
EmptyParsed == [present |-> TRUE, key |-> "", val |-> ""]

NoMeta == [fileSize |-> 0, ocrProcessedAt |-> FALSE, aiParsedAt |-> FALSE]

NoDoc ==
    [life |-> "absent", fileName |-> "", fileUrl |-> "", fileType |-> "",
     status |-> "processing", documentType |-> "other",
     ocrResult |-> NoOcr, parsedData |-> NoParsed, error |-> NoError,
     metadata |-> NoMeta]

\* saveFile: the url of the stored file, unique per upload.
UrlOf(d) == <<"/uploads/", d>>

\* Document.create of the upload handler, with status given as "completed".
NewDocCompleted(t, f, d) ==
    [NoDoc EXCEPT !.life = "live", !.documentType = t, !.fileName = f.name,
                  !.fileUrl = UrlOf(d), !.fileType = f.type,
                  !.metadata.fileSize = f.size, !.status = "completed"]

\* Document.create in the upload handler: the file f stored for document d.
NewDoc(t, f, d) ==
    [NoDoc EXCEPT !.life = "live", !.documentType = t, !.fileName = f.name,
                  !.fileUrl = UrlOf(d), !.fileType = f.type,
                  !.metadata.fileSize = f.size, !.status = "processing"]

(***************************************************************************)
(* State.                                                                  *)
(*   docs      the Document collection, by id                              *)
(*   procs     the process invocations, by slot: position, in-memory copy  *)
(*             of the record, its modified paths, and what the remote      *)
(*             calls of the invocation returned                            *)
(*   audit     the AuditLog collection, in insertion order                 *)
(*   requests  number of edit, view and delete requests served so far      *)
(*   files     the upload directory: the urls of the files stored           *)
(*   refused   the responses of the upload requests that were not answered *)
(*             201, in order                                               *)
(*   users     the User collection, by id                                  *)
(*   tokens    the auth_token cookie every client holds, by user id        *)
(*   reply     the last request that went through requirePermission: what  *)
(*             it asked, the payload of its token, and the refusal if any  *)
(*   inits     the POST /api/init requests, by slot: position and answer   *)
(*   mongo     the connection cache of the process, the connection         *)
(*             attempts and the callers of connectToDatabase               *)
(***************************************************************************)
VARIABLES docs, procs, audit, requests, files, refused, users,
          tokens, reply, inits, mongo

vars == <<docs, procs, audit, requests, files, refused, users,
          tokens, reply, inits, mongo>>

\* What the handlers of the documents and of the users never touch, without
\* and with the record of the permission guard.
aside == <<tokens, inits, mongo>>

rest == <<tokens, reply, inits, mongo>>

NoOut == [kind |-> "none", val |-> "", msg |-> ""]

NoResponse == [code |-> 0, status |-> ""]

\* How many times an invocation has called ocrFromUrl, detectDocumentType
\* and parseByType.
NoCalls == [ocr |-> 0, cls |-> 0, ext |-> 0]

\* An invocation: position, in-memory copy and modified paths, status and
\* documentType the record had at findById, what the remote calls answered,
\* the AuditLog.log call that threw (if one did), how the function returned,
\* the response of the request that started it, and its remote calls so far.
IdleProc ==
    [pc |-> "idle", kind |-> "", doc |-> 0, local |-> NoDoc, mod |-> {},
     loadedStatus |-> "", loadedType |-> "", ocrOut |-> NoOut, clsOut |-> NoOut,
     extOut |-> NoOut, threw |-> "", result |-> "", response |-> NoResponse,
     calls |-> NoCalls]

UserIds == 1..MaxUsers

Roles == {"admin", "operation", "guest"}

\* The permission flags of a role.
ROLE_PERMISSIONS ==
    [admin |->
        [canUpload |-> TRUE, canViewDocuments |-> TRUE, canDeleteDocuments |-> TRUE,
         canExportDocuments |-> TRUE, canReprocessDocuments |-> TRUE,
         canViewReports |-> TRUE, canManageUsers |-> TRUE, canManageSettings |-> TRUE],
     operation |->
        [canUpload |-> TRUE, canViewDocuments |-> TRUE, canDeleteDocuments |-> TRUE,
         canExportDocuments |-> TRUE, canReprocessDocuments |-> TRUE,
         canViewReports |-> TRUE, canManageUsers |-> FALSE, canManageSettings |-> FALSE],
     guest |->
        [canUpload |-> FALSE, canViewDocuments |-> TRUE, canDeleteDocuments |-> FALSE,
         canExportDocuments |-> FALSE, canReprocessDocuments |-> FALSE,
         canViewReports |-> TRUE, canManageUsers |-> FALSE, canManageSettings |-> FALSE]]

\* The schema defaults of the eight flags.
NoPermissions ==
    [canUpload |-> FALSE, canViewDocuments |-> FALSE, canDeleteDocuments |-> FALSE,
     canExportDocuments |-> FALSE, canReprocessDocuments |-> FALSE,
     canViewReports |-> FALSE, canManageUsers |-> FALSE, canManageSettings |-> FALSE]

NoUser ==
    [life |-> "absent", phone |-> "", name |-> "", role |-> "guest",
     permissions |-> NoPermissions, isActive |-> TRUE]

\* The payload of a request without a valid auth_token cookie.
NoToken == [id |-> 0, role |-> "", permissions |-> NoPermissions]

NoReply == [n |-> 0, op |-> "", by |-> NoToken, refused |-> 0]

InitIds == 1..MaxInits

IdleInit == [pc |-> "idle", code |-> 0]

AttemptIds == 1..MaxAttempts

\* global.mongooseCache before the first call (conn and promise null, 0 for
\* no promise, else the attempt the promise stands for), and around it: the
\* mongoose.connect calls issued so far, those still pending, the calls of
\* connectToDatabase made, awaiting each attempt, returned and thrown, the
\* SIGINT handlers awaiting mongoose.disconnect, and whether the process
\* has exited.
NoMongo ==
    [conn |-> FALSE, promise |-> 0, attempts |-> 0, pending |-> {},
     waiters |-> [a \in AttemptIds |-> 0], calls |-> 0, returned |-> 0,
     thrown |-> 0, closing |-> 0, exited |-> FALSE]

Init ==
    /\ docs = [d \in DocIds |-> NoDoc]
    /\ procs = [p \in ProcIds |-> IdleProc]
    /\ audit = << >>
    /\ requests = 0
    /\ files = {}
    /\ refused = << >>
    /\ users = [u \in UserIds |-> NoUser]
    /\ tokens = [u \in UserIds |-> NoToken]
    /\ reply = NoReply
    /\ inits = [i \in InitIds |-> IdleInit]
    /\ mongo = NoMongo

(***************************************************************************)
(* The in-memory copy of a record: l = [doc, mod], the values and the set  *)
(* of modified paths.  Assigning a path a value equal to the one it holds  *)
(* leaves the path unmodified; save() sends the modified paths only.       *)
(***************************************************************************)
SetPath(l, path, val) ==
    IF l.doc[path] = val
    THEN l
    ELSE [doc |-> [l.doc EXCEPT ![path] = val], mod |-> l.mod \cup {path}]

\* this.metadata.ocrProcessedAt = new Date(): a new value at every call.
StampOcr(l) ==
    [doc |-> [l.doc EXCEPT !.metadata.ocrProcessedAt = TRUE],
     mod |-> l.mod \cup {"metadata.ocrProcessedAt"}]

\* this.metadata.aiParsedAt = new Date()
StampAi(l) ==
    [doc |-> [l.doc EXCEPT !.metadata.aiParsedAt = TRUE],
     mod |-> l.mod \cup {"metadata.aiParsedAt"}]

\* message: error.message || "Unknown error"
StoredMessage(m) == IF m = "" THEN "Unknown error" ELSE m

\* updateStatus storing error.message as given, without the fallback.
updateStatusRawMessage(l, status, err) ==
    LET l1 == SetPath(l, "status", status)
    IN  IF status = "failed"
        THEN SetPath(l1, "error",
                     [present |-> TRUE, message |-> err.message, stage |-> err.stage])
        ELSE SetPath(l1, "error", NoError)

\* DocumentSchema.methods.updateStatus, before its save(); err = [message, stage].
updateStatus(l, status, err) ==
    LET l1 == SetPath(l, "status", status)
    IN  IF status = "failed"
        THEN SetPath(l1, "error",
                     [present |-> TRUE, message |-> StoredMessage(err.message),
                      stage |-> err.stage])
        ELSE SetPath(l1, "error", NoError)

\* updateOcrResult that stamps the time and does not assign ocrResult.
updateOcrResultStampOnly(l, text) == StampOcr(l)

\* updateOcrResult that also resets parsedData to the empty object.
updateOcrResultResetsParsed(l, text) ==
    StampOcr(SetPath(SetPath(l, "ocrResult", [present |-> TRUE, mdResults |-> text]),
                     "parsedData", EmptyParsed))

\* An updateOcrResult that marks the document completed as well.
updateOcrResultCompletes(l, text) ==
    SetPath(StampOcr(SetPath(l, "ocrResult", [present |-> TRUE, mdResults |-> text])),
            "status", "completed")

\* DocumentSchema.methods.updateOcrResult, before its save().
updateOcrResult(l, text) ==
    StampOcr(SetPath(l, "ocrResult", [present |-> TRUE, mdResults |-> text]))

\* Casting { [key]: val } to ParsedDataSchema: an undeclared key is dropped.
CastParsed(key, val) ==
    IF key \in SchemaKeys
    THEN [present |-> TRUE, key |-> key, val |-> val]
    ELSE EmptyParsed

\* DocumentSchema.methods.updateParsedData, before its save(); the argument
\* is { [key]: val } and documentType is always given by the pipeline.
updateParsedData(l, key, val, documentType) ==
    SetPath(SetPath(StampAi(SetPath(l, "parsedData", CastParsed(key, val))),
                    "documentType", documentType),
            "status", "completed")

\* Validation at save(), of the required paths and the modified paths:
\* documentType is required, so it is checked against the enum at every
\* save; ocrResult.mdResults is required in the sub-document that is being
\* set (an empty string does not satisfy a required String).
Valid(l) ==
    /\ l.doc.documentType \in DocTypes
    /\ "ocrResult" \in l.mod => l.doc.ocrResult.mdResults # ""

\* A save() that writes to a record that is no longer in the store.
CanSaveDeleted(l, stored) == Valid(l)

\* save() succeeds: the copy validates, and the record is still in the
\* store unless there is nothing to write.
CanSave(l, stored) == Valid(l) /\ (l.mod = {} \/ stored.life = "live")

\* A save() that writes the whole in-memory copy, modified or not.
SavedWhole(l, stored) == [l.doc EXCEPT !.life = stored.life]

\* The record after a successful save(): modified paths overwritten.
Saved(l, stored) ==
    [stored EXCEPT
       !.status = IF "status" \in l.mod THEN l.doc.status ELSE @,
       !.documentType = IF "documentType" \in l.mod THEN l.doc.documentType ELSE @,
       !.ocrResult = IF "ocrResult" \in l.mod THEN l.doc.ocrResult ELSE @,
       !.parsedData = IF "parsedData" \in l.mod THEN l.doc.parsedData ELSE @,
       !.error = IF "error" \in l.mod THEN l.doc.error ELSE @,
       !.metadata.ocrProcessedAt =
           IF "metadata.ocrProcessedAt" \in l.mod THEN l.doc.metadata.ocrProcessedAt ELSE @,
       !.metadata.aiParsedAt =
           IF "metadata.aiParsedAt" \in l.mod THEN l.doc.metadata.aiParsedAt ELSE @]

\* The message of the error save() throws.
SaveErrorMessage(l) == IF Valid(l) THEN "No document found" ELSE "Validation failed"

\* A log call that overwrites the latest entry instead of adding one.
LoggedOverLast(d, action, stage) ==
    IF audit = << >>
    THEN Append(audit, [doc |-> d, action |-> action, stage |-> stage])
    ELSE [audit EXCEPT ![Len(audit)] = [doc |-> d, action |-> action, stage |-> stage]]

\* AuditLog.log: one more entry.
Logged(d, action, stage) == Append(audit, [doc |-> d, action |-> action, stage |-> stage])

Copy(p) == [doc |-> procs[p].local, mod |-> procs[p].mod]

(***************************************************************************)
(* What the remote collaborators can answer.                               *)
(***************************************************************************)
\* ocrFromUrl: throws, or returns md_results (possibly empty).
OcrOutcomes(E) ==
    {[kind |-> "ok", val |-> t, msg |-> ""] : t \in E.texts}
    \cup {[kind |-> "fail", val |-> "", msg |-> m] : m \in E.msgs}

\* detectDocumentType: throws (the call, or the JSON of its answer), or
\* returns result.type || "other", which need not be in the enum.
ClsOutcomes(E) ==
    {[kind |-> "ok", val |-> t, msg |-> ""] : t \in E.cls}
    \cup {[kind |-> "fail", val |-> "", msg |-> m] : m \in E.msgs}

\* The document types parseByType has a parser for.
ParsedTypes == DocTypes \ {"other"}

\* parseByType: null without a call for a type it has no case for; else the
\* parser's record, or the parser throws.
ExtOutcomes(E, t) ==
    IF t \in ParsedTypes
    THEN {[kind |-> "ok", val |-> r, msg |-> ""] : r \in E.results}
         \cup {[kind |-> "fail", val |-> "", msg |-> m] : m \in E.msgs}
    ELSE {[kind |-> "null", val |-> "", msg |-> ""]}

(***************************************************************************)
(* Requests that start an invocation.                                      *)
(***************************************************************************)
Quiet == \A p \in ProcIds : procs[p].pc \in {"idle", "done"}

FreeSlot(p) ==
    /\ procs[p].pc = "idle"
    /\ \A q \in ProcIds : q < p => procs[q].pc # "idle"

\* What the request that starts an invocation answers, without awaiting it:
\* the upload 201 with the status of the created record, the reprocess 200.
StartResponse(kind, status) ==
    IF kind = "upload" THEN [code |-> 201, status |-> status]
    ELSE [code |-> 200, status |-> ""]

Started(kind, d, status) ==
    [IdleProc EXCEPT !.pc = "start", !.kind = kind, !.doc = d,
                     !.response = StartResponse(kind, status)]

\* An invocation whose promise rejects with the error handed to it.
EndedRejecting(me, result) ==
    [IdleProc EXCEPT !.pc = "done", !.kind = me.kind, !.doc = me.doc,
                     !.threw = me.threw, !.response = me.response,
                     !.calls = me.calls,
                     !.result = IF result = "aborted" THEN "rejected" ELSE result]

\* An invocation that has returned: its locals are gone (the count of its
\* calls is kept for the record).  Every path of the
\* function returns, the outer catch included: the promise never rejects.
Ended(me, result) ==
    [IdleProc EXCEPT !.pc = "done", !.kind = me.kind, !.doc = me.doc,
                     !.threw = me.threw, !.response = me.response,
                     !.calls = me.calls, !.result = result]

\* The checks of the upload handler without the one of the size.
RefusalIgnoresSize(f) ==
    IF ~f.given THEN "no_file"
    ELSE IF f.type \notin allowedFileTypes THEN "bad_type"
    ELSE "none"

\* validateFileType and validateFileSize, after the check that a file is given.
Refusal(f) ==
    IF ~f.given THEN "no_file"
    ELSE IF f.type \notin allowedFileTypes THEN "bad_type"
    ELSE IF ~(f.size <= maxFileSize) THEN "too_large"
    ELSE "none"

\* POST /api/documents/upload with a file that passes the checks: store the
\* file, create the record, log the upload, start processDocumentAsync
\* without awaiting it, answer 201.  d is the id the new record gets.
UploadPermitted(d, f, t, p) ==
    /\ Refusal(f) = "none"
    /\ docs[d].life = "absent"
    /\ \A e \in DocIds : e < d => docs[e].life # "absent"
    /\ FreeSlot(p)
    /\ files' = files \cup {UrlOf(d)}
    /\ docs' = [docs EXCEPT ![d] = NewDoc(t, f, d)]
    /\ audit' = Logged(d, "upload", "")
    /\ procs' = [procs EXCEPT ![p] = Started("upload", d, NewDoc(t, f, d).status)]
    /\ UNCHANGED <<requests, refused, users, aside>>

\* The same request of a client whose token holds the flag it needs.
Upload(d, f, t, p) == UploadPermitted(d, f, t, p) /\ UNCHANGED reply

\* POST /api/documents/upload with a file that fails a check: 400, and the
\* handler returns before saveFile.
UploadRefused(f) ==
    /\ Refusal(f) # "none"
    /\ Len(refused) < MaxRefused
    /\ refused' = Append(refused, [code |-> 400, error |-> Refusal(f)])
    /\ UNCHANGED <<docs, procs, audit, requests, files, users, rest>>

\* POST /api/documents/upload whose AuditLog.log throws: the file is stored
\* and the record created, the handler's catch answers 500 and
\* processDocumentAsync is never called.
UploadAuditThrows(d, f, t) ==
    /\ Refusal(f) = "none"
    /\ docs[d].life = "absent"
    /\ \A e \in DocIds : e < d => docs[e].life # "absent"
    /\ Len(refused) < MaxRefused
    /\ files' = files \cup {UrlOf(d)}
    /\ docs' = [docs EXCEPT ![d] = NewDoc(t, f, d)]
    /\ refused' = Append(refused, [code |-> 500, error |-> AuditErrMsg])
    /\ UNCHANGED <<procs, audit, requests, users, rest>>

\* POST /api/documents/process: start processDocument without awaiting it.
ReprocessPermitted(d, p) ==
    /\ FreeSlot(p)
    /\ procs' = [procs EXCEPT ![p] = Started("reprocess", d, "")]
    /\ UNCHANGED <<docs, audit, requests, files, refused, users, aside>>

\* The same request of a client whose token holds the flag it needs.
Reprocess(d, p) == ReprocessPermitted(d, p) /\ UNCHANGED reply

(***************************************************************************)
(* The steps of one invocation, one per store operation.                   *)
(***************************************************************************)
\* Document.findById; a missing record ends the invocation.
Load(p) ==
    /\ procs[p].pc = "start"
    /\ LET d == procs[p].doc
       IN  procs' = [procs EXCEPT ![p] =
              IF docs[d].life = "live"
              THEN [@ EXCEPT !.local = docs[d], !.loadedStatus = docs[d].status,
                             !.loadedType = docs[d].documentType, !.mod = {},
                             !.pc = IF procs[p].kind = "reprocess" THEN "audit_start"
                                    ELSE "ocr"]
              ELSE Ended(procs[p], "notfound")]
    /\ UNCHANGED <<docs, audit, requests, files, refused, users, rest>>

\* The AuditLog.log calls of the pipeline.
AuditStage(pc) ==
    CASE pc = "audit_start" -> "started"
      [] pc = "audit_ocr_ok" -> "ocr_completed"
      [] pc = "audit_ocr_failed" -> "ocr_failed"
      [] pc = "audit_parse_ok" -> "ai_parse_completed"
      [] pc = "audit_parse_failed" -> "ai_parse_failed"

AuditPcs == {"audit_start", "audit_ocr_ok", "audit_ocr_failed", "audit_parse_ok",
             "audit_parse_failed"}

LogStep(p) ==
    /\ procs[p].pc \in AuditPcs
    /\ audit' = Logged(procs[p].doc, "reparse", AuditStage(procs[p].pc))
    /\ procs' = [procs EXCEPT ![p] =
           CASE @.pc = "audit_start" -> [@ EXCEPT !.pc = "ocr"]
             [] @.pc = "audit_ocr_ok" -> [@ EXCEPT !.pc = "parse"]
             [] OTHER -> Ended(@, @.result)]
    /\ UNCHANGED <<docs, requests, files, refused, users, rest>>

\* processDocumentAsync returns after updateParsedData without a log entry.
Return(p) ==
    /\ procs[p].pc = "returning"
    /\ procs' = [procs EXCEPT ![p] = Ended(@, @.result)]
    /\ UNCHANGED <<docs, audit, requests, files, refused, users, rest>>

\* A catch block of the pipeline: updateStatus("failed", {message, stage});
\* when its save() throws as well, the outer catch ends the invocation.
\* me is the invocation's record with the outcomes of its calls noted.
Failed(p, me, l, msg, stage, result, auditPc) ==
    LET d == me.doc
        l2 == updateStatus(l, "failed", [message |-> msg, stage |-> stage])
    IN  IF CanSave(l2, docs[d])
        THEN /\ docs' = [docs EXCEPT ![d] = Saved(l2, @)]
             /\ procs' = [procs EXCEPT ![p] =
                    [me EXCEPT !.local = l2.doc, !.mod = {}, !.result = result,
                               !.pc = auditPc]]
        ELSE /\ docs' = docs
             /\ procs' = [procs EXCEPT ![p] = Ended(me, "aborted")]

\* A remote call that is made again when it fails.
CalledRetrying(c, call, out) ==
    [c EXCEPT ![call] = IF out.kind = "fail" THEN @ + 2 ELSE @ + 1]

\* One remote call made, whatever it answers: the steps have no loop and
\* no retry around their calls.
Called(c, call, out) == [c EXCEPT ![call] = @ + 1]

\* Step 1: ocrFromUrl, then updateOcrResult.
OcrStep(p, E) ==
    /\ procs[p].pc = "ocr"
    /\ \E out \in OcrOutcomes(E) :
         LET d == procs[p].doc
             me == [procs[p] EXCEPT !.ocrOut = out,
                                    !.calls = Called(@, "ocr", out)]
             l1 == updateOcrResult(Copy(p), out.val)
         IN  IF out.kind = "fail"
             THEN Failed(p, me, Copy(p), out.msg, "ocr", "failed_ocr", "audit_ocr_failed")
             ELSE IF CanSave(l1, docs[d])
             THEN /\ docs' = [docs EXCEPT ![d] = Saved(l1, @)]
                  /\ procs' = [procs EXCEPT ![p] =
                        [me EXCEPT !.local = l1.doc, !.mod = {},
                                   !.pc = IF me.kind = "reprocess" THEN "audit_ocr_ok"
                                          ELSE "parse"]]
             ELSE Failed(p, me, l1, SaveErrorMessage(l1), "ocr", "failed_ocr",
                         "audit_ocr_failed")
    /\ UNCHANGED <<audit, requests, files, refused, users, rest>>

\* Step 2 calling detectDocumentType whatever the type of the document.
DetectionAlways(E, t) == ClsOutcomes(E)

\* The type step 2 extracts with: detectDocumentType is called when the
\* document's type is "other", else the type is the document's own.
Detection(E, t) ==
    IF t = "other"
    THEN ClsOutcomes(E)
    ELSE {[kind |-> "skipped", val |-> t, msg |-> ""]}

\* Step 2: detectDocumentType when the type is "other", parseByType, then
\* updateParsedData({ [detectedType]: result }, detectedType).
ParseStep(p, E) ==
    /\ procs[p].pc = "parse"
    /\ \E cls \in Detection(E, procs[p].local.documentType) :
         LET d == procs[p].doc
             me1 == [procs[p] EXCEPT !.clsOut = cls,
                                     !.calls = IF cls.kind = "skipped" THEN @
                                               ELSE Called(@, "cls", cls)]
         IN  IF cls.kind = "fail"
             THEN Failed(p, me1, Copy(p), cls.msg, "ai_parse", "failed_ai",
                         "audit_parse_failed")
             ELSE \E ext \in ExtOutcomes(E, cls.val) :
                    LET me == [me1 EXCEPT !.extOut = ext,
                                          !.calls = IF ext.kind = "null" THEN @
                                                    ELSE Called(@, "ext", ext)]
                        l1 == updateParsedData(Copy(p), cls.val, ext.val, cls.val)
                    IN  IF ext.kind = "fail"
                        THEN Failed(p, me, Copy(p), ext.msg, "ai_parse", "failed_ai",
                                    "audit_parse_failed")
                        ELSE IF CanSave(l1, docs[d])
                        THEN /\ docs' = [docs EXCEPT ![d] = Saved(l1, @)]
                             /\ procs' = [procs EXCEPT ![p] =
                                   [me EXCEPT !.local = l1.doc, !.mod = {},
                                              !.result = "completed",
                                              !.pc = IF me.kind = "reprocess"
                                                     THEN "audit_parse_ok"
                                                     ELSE "returning"]]
                        ELSE Failed(p, me, l1, SaveErrorMessage(l1), "ai_parse",
                                    "failed_ai", "audit_parse_failed")
    /\ UNCHANGED <<audit, requests, files, refused, users, rest>>

\* An AuditLog.log call of the pipeline throws.  The "started" call is
\* outside the step blocks: the outer catch ends the invocation.  The calls
\* after a successful step are inside that step's try block: its catch
\* block marks the document failed at that stage.  The calls of the catch
\* blocks end the invocation through the outer catch.
LogThrows(p) ==
    /\ procs[p].pc \in AuditPcs
    /\ LET me == [procs[p] EXCEPT !.threw = procs[p].pc]
       IN  CASE me.pc = "audit_start" ->
                  /\ procs' = [procs EXCEPT ![p] = Ended(me, "aborted")]
                  /\ docs' = docs
             [] me.pc = "audit_ocr_ok" ->
                  Failed(p, me, Copy(p), AuditErrMsg, "ocr", "failed_ocr",
                         "audit_ocr_failed")
             [] me.pc = "audit_parse_ok" ->
                  Failed(p, me, Copy(p), AuditErrMsg, "ai_parse", "failed_ai",
                         "audit_parse_failed")
             [] OTHER ->
                  /\ procs' = [procs EXCEPT ![p] = Ended(me, me.result)]
                  /\ docs' = docs
    /\ UNCHANGED <<audit, requests, files, refused, users, rest>>

(***************************************************************************)
(* Requests on one document.                                               *)
(***************************************************************************)
\* Request bodies of PUT /api/documents/{id}: documentType absent or a
\* string; parsedData absent, null, or an object with at most one entry.
PutBodies ==
    {[hasType |-> h, documentType |-> t, parsedData |-> pd, key |-> "", val |-> "",
      fileName |-> n] :
        h \in {TRUE}, t \in PutTypes, pd \in {"absent", "null"}, n \in PutFileNames}
    \cup {[hasType |-> FALSE, documentType |-> "", parsedData |-> pd, key |-> "",
           val |-> "", fileName |-> n] : pd \in {"absent", "null"}, n \in PutFileNames}
    \cup {[hasType |-> TRUE, documentType |-> t, parsedData |-> "object", key |-> k,
           val |-> IF k = "" THEN "" ELSE v, fileName |-> n] :
            t \in PutTypes, k \in PutKeys, v \in PutVals, n \in PutFileNames}
    \cup {[hasType |-> FALSE, documentType |-> "", parsedData |-> "object", key |-> k,
           val |-> IF k = "" THEN "" ELSE v, fileName |-> n] :
            k \in PutKeys, v \in PutVals, n \in PutFileNames}

\* A PUT that marks the document completed whatever the body holds.
PutUpdatesAlwaysCompleted(doc, body) ==
    LET d1 == IF body.hasType THEN [doc EXCEPT !.documentType = body.documentType]
              ELSE doc
        d2 == IF body.parsedData = "null" THEN [d1 EXCEPT !.parsedData = NoParsed]
              ELSE IF body.parsedData = "object"
              THEN [d1 EXCEPT !.parsedData = CastParsed(body.key, body.val)]
              ELSE d1
    IN  [d2 EXCEPT !.status = "completed",
                   !.metadata = [doc.metadata EXCEPT !.aiParsedAt = TRUE]]

\* A PUT whose list of allowed fields includes fileName.
PutUpdatesRenames(doc, body) ==
    LET d0 == IF body.fileName # "" THEN [doc EXCEPT !.fileName = body.fileName]
              ELSE doc
        d1 == IF body.hasType THEN [d0 EXCEPT !.documentType = body.documentType]
              ELSE d0
    IN  IF body.parsedData = "null" THEN [d1 EXCEPT !.parsedData = NoParsed]
        ELSE IF body.parsedData = "object"
        THEN [d1 EXCEPT !.parsedData = CastParsed(body.key, body.val),
                        !.status = "completed",
                        !.metadata = [doc.metadata EXCEPT !.aiParsedAt = TRUE]]
        ELSE d1

\* A PUT that copies the allowed fields and never touches the status.
PutUpdatesKeepsStatus(doc, body) ==
    LET d1 == IF body.hasType THEN [doc EXCEPT !.documentType = body.documentType]
              ELSE doc
    IN  IF body.parsedData = "null" THEN [d1 EXCEPT !.parsedData = NoParsed]
        ELSE IF body.parsedData = "object"
        THEN [d1 EXCEPT !.parsedData = CastParsed(body.key, body.val)]
        ELSE d1

\* PUT: $set of the allowed fields of the body, no validation; a truthy
\* parsedData also sets status and metadata.
PutUpdates(doc, body) ==
    LET d1 == IF body.hasType THEN [doc EXCEPT !.documentType = body.documentType]
              ELSE doc
    IN  IF body.parsedData = "null" THEN [d1 EXCEPT !.parsedData = NoParsed]
        ELSE IF body.parsedData = "object"
        THEN [d1 EXCEPT !.parsedData = CastParsed(body.key, body.val),
                        !.status = "completed",
                        !.metadata = [doc.metadata EXCEPT !.aiParsedAt = TRUE]]
        ELSE d1

PutPermitted(d, body) ==
    /\ requests < MaxRequests
    /\ docs[d].life = "live"
    /\ docs' = [docs EXCEPT ![d] = PutUpdates(@, body)]
    /\ audit' = Logged(d, "update",
                       IF body.parsedData = "object" THEN "parsedData" ELSE "")
    /\ requests' = requests + 1
    /\ UNCHANGED <<procs, files, refused, users, aside>>

\* The same request of a client whose token holds the flag it needs.
Put(d, body) == PutPermitted(d, body) /\ UNCHANGED reply

\* GET /api/documents/{id}: reads the record and logs the view.
ViewPermitted(d) ==
    /\ requests < MaxRequests
    /\ docs[d].life = "live"
    /\ audit' = Logged(d, "view", "")
    /\ requests' = requests + 1
    /\ UNCHANGED <<docs, procs, files, refused, users, aside>>

\* The same request of a client whose token holds the flag it needs.
View(d) == ViewPermitted(d) /\ UNCHANGED reply

\* DELETE /api/documents/{id}: findByIdAndDelete, then the delete entry.
DeletePermitted(d) ==
    /\ requests < MaxRequests
    /\ docs[d].life = "live"
    /\ docs' = [docs EXCEPT ![d] = [NoDoc EXCEPT !.life = "deleted"]]
    /\ audit' = Logged(d, "delete", "")
    /\ requests' = requests + 1
    /\ UNCHANGED <<procs, files, refused, users, aside>>

\* The same request of a client whose token holds the flag it needs.
Delete(d) == DeletePermitted(d) /\ UNCHANGED reply

\* The delete entries of a batch: one per record found, in id order.
RECURSIVE DeleteEntries(_, _)
DeleteEntries(log, found) ==
    IF found = {} THEN log
    ELSE LET d == CHOOSE x \in found : \A y \in found : x <= y
         IN  DeleteEntries(Append(log, [doc |-> d, action |-> "delete", stage |-> "batch"]),
                           found \ {d})

\* DELETE /api/documents with a list of ids: find the records, deleteMany,
\* then one delete entry for every record found.
BatchDeletePermitted(ids) ==
    /\ requests < MaxRequests
    /\ ids # {}
    /\ LET found == {d \in ids : docs[d].life = "live"}
       IN  /\ docs' = [d \in DocIds |->
                         IF d \in found THEN [NoDoc EXCEPT !.life = "deleted"]
                         ELSE docs[d]]
           /\ audit' = DeleteEntries(audit, found)
    /\ requests' = requests + 1
    /\ UNCHANGED <<procs, files, refused, users, aside>>

\* The same request of a client whose token holds the flag it needs.
BatchDelete(ids) == BatchDeletePermitted(ids) /\ UNCHANGED reply

(***************************************************************************)
(* Requests on the users.  The caller has passed requirePermission.        *)
(***************************************************************************)
adminPhone == "13800138000"

\* phone of a request body: two that match /^1[3-9]\d{9}$/, one that does not.
Phones == {adminPhone, "13900139000", "12345"}

ValidPhones == {adminPhone, "13900139000"}

Names == {"Li", "Wang"}

\* role of a request body: a role, a string that is no role, or none ("").
BodyRoles == Roles \cup {"owner", ""}

FreeUser(u) ==
    /\ users[u].life = "absent"
    /\ \A v \in UserIds : v < u => users[v].life # "absent"

\* POST /api/init: with no user in the collection, createAdmin.
InitSystem(u) ==
    /\ \A v \in UserIds : users[v].life # "live"
    /\ FreeUser(u)
    /\ users' = [users EXCEPT ![u] =
          [NoUser EXCEPT !.life = "live", !.phone = adminPhone, !.name = "admin",
                         !.role = "admin", !.permissions = ROLE_PERMISSIONS.admin]]
    /\ UNCHANGED <<docs, procs, audit, requests, files, refused, rest>>

\* The 400 answers of POST /api/users, in the order of the checks.
CreateRefusal(body) ==
    IF body.phone = "" \/ body.name = "" \/ body.role = "" THEN "incomplete"
    ELSE IF body.phone \notin ValidPhones THEN "bad_phone"
    ELSE IF body.role \notin Roles THEN "bad_role"
    ELSE IF body.role = "admin" THEN "no_admin"
    ELSE IF \E v \in UserIds : users[v].life = "live" /\ users[v].phone = body.phone
    THEN "phone_taken"
    ELSE "none"

\* POST /api/users: User.create with the flags of the role.
CreateUserPermitted(u, body) ==
    /\ CreateRefusal(body) = "none"
    /\ FreeUser(u)
    /\ users' = [users EXCEPT ![u] =
          [NoUser EXCEPT !.life = "live", !.phone = body.phone, !.name = body.name,
                         !.role = body.role,
                         !.permissions = ROLE_PERMISSIONS[body.role]]]
    /\ UNCHANGED <<docs, procs, audit, requests, files, refused, aside>>

\* The same request of a client whose token holds the flag it needs.
CreateUser(u, body) == CreateUserPermitted(u, body) /\ UNCHANGED reply

\* A role change that leaves the flags as they are.
WithRoleOnly(user, role) == [user EXCEPT !.role = role]

\* user.role = role; user.permissions = ROLE_PERMISSIONS[role]
WithRole(user, role) ==
    [user EXCEPT !.role = role, !.permissions = ROLE_PERMISSIONS[role]]

\* PUT /api/users/{id}: name, role and isActive of a user that is no admin.
\* A role that is no role fails the validation of save(): nothing is stored.
\* body.isActive is "absent", "true" or "false".
UpdateUserPermitted(u, body) ==
    /\ users[u].life = "live"
    /\ users[u].role # "admin"
    /\ body.role \in Roles \cup {""}
    /\ LET u1 == IF body.name # "" THEN [users[u] EXCEPT !.name = body.name]
                 ELSE users[u]
           u2 == IF body.role # "" /\ body.role # users[u].role
                 THEN WithRole(u1, body.role)
                 ELSE u1
           u3 == IF body.isActive # "absent"
                 THEN [u2 EXCEPT !.isActive = (body.isActive = "true")]
                 ELSE u2
       IN  users' = [users EXCEPT ![u] = u3]
    /\ UNCHANGED <<docs, procs, audit, requests, files, refused, aside>>

\* The same request of a client whose token holds the flag it needs.
UpdateUser(u, body) == UpdateUserPermitted(u, body) /\ UNCHANGED reply

\* DELETE /api/users/{id}: a user that is no admin.
DeleteUserPermitted(u) ==
    /\ users[u].life = "live"
    /\ users[u].role # "admin"
    /\ users' = [users EXCEPT ![u] = [NoUser EXCEPT !.life = "deleted"]]
    /\ UNCHANGED <<docs, procs, audit, requests, files, refused, aside>>

\* The same request of a client whose token holds the flag it needs.
DeleteUser(u) == DeleteUserPermitted(u) /\ UNCHANGED reply

CreateBodies == [phone : Phones, name : Names, role : BodyRoles]

UpdateBodies == [name : Names \cup {""}, role : BodyRoles, isActive : {"absent", "true", "false"}]

(***************************************************************************)
(* POST /api/init, one store operation per step: requests may overlap.     *)
(***************************************************************************)
\* A collection without the unique index on phone.
PhoneNeverTaken(phone) == FALSE

\* The unique index on phone: an insert with the phone of a stored user
\* fails with a duplicate key error.
PhoneTaken(phone) ==
    \E v \in UserIds : users[v].life = "live" /\ users[v].phone = phone

\* An init request arrives.
InitStart(i) ==
    /\ inits[i].pc = "idle"
    /\ \A j \in InitIds : j < i => inits[j].pc # "idle"
    /\ inits' = [inits EXCEPT ![i].pc = "count"]
    /\ UNCHANGED <<docs, procs, audit, requests, files, refused, users, tokens,
                   reply, mongo>>

\* User.countDocuments(): 400 when the collection holds a user.
InitCount(i) ==
    /\ inits[i].pc = "count"
    /\ inits' = [inits EXCEPT ![i] =
          IF \E v \in UserIds : users[v].life = "live"
          THEN [pc |-> "done", code |-> 400]
          ELSE [pc |-> "find", code |-> 0]]
    /\ UNCHANGED <<docs, procs, audit, requests, files, refused, users, tokens,
                   reply, mongo>>

\* createAdmin, findOne({ role: "admin" }): an admin found is returned as
\* the admin of the answer (200).
InitFind(i) ==
    /\ inits[i].pc = "find"
    /\ inits' = [inits EXCEPT ![i] =
          IF \E v \in UserIds : users[v].life = "live" /\ users[v].role = "admin"
          THEN [pc |-> "done", code |-> 200]
          ELSE [pc |-> "create", code |-> 0]]
    /\ UNCHANGED <<docs, procs, audit, requests, files, refused, users, tokens,
                   reply, mongo>>

\* createAdmin, this.create: the insert, or the duplicate key error that
\* the handler's catch answers with 500.
InitCreate(i) ==
    /\ inits[i].pc = "create"
    /\ IF PhoneTaken(adminPhone)
       THEN /\ inits' = [inits EXCEPT ![i] = [pc |-> "done", code |-> 500]]
            /\ users' = users
       ELSE \E u \in UserIds :
              /\ FreeUser(u)
              /\ inits' = [inits EXCEPT ![i] = [pc |-> "done", code |-> 200]]
              /\ users' = [users EXCEPT ![u] =
                    [NoUser EXCEPT !.life = "live", !.phone = adminPhone,
                                   !.name = "admin", !.role = "admin",
                                   !.permissions = ROLE_PERMISSIONS.admin]]
    /\ UNCHANGED <<docs, procs, audit, requests, files, refused, tokens, reply,
                   mongo>>

(***************************************************************************)
(* The connection cache.  A call of connectToDatabase runs without         *)
(* interruption up to its await; the calls awaiting one promise resume     *)
(* one after the other when it settles, with nothing in between.           *)
(***************************************************************************)
DbOthers == <<docs, procs, audit, requests, files, refused, users, tokens, reply, inits>>

\* A call that issues mongoose.connect whenever no connection is cached.
StartsAttemptUncached(m) == ~m.conn

\* if (!cache.promise), after if (cache.conn) return: the call issues
\* mongoose.connect.
StartsAttempt(m) == ~m.conn /\ m.promise = 0

\* connectToDatabase up to its return or its await: the cached connection
\* is returned; or mongoose.connect is called and its promise cached; or
\* the call awaits the promise that is cached.
Connect ==
    /\ ~mongo.exited
    /\ mongo.calls < MaxCalls
    /\ IF mongo.conn
       THEN mongo' = [mongo EXCEPT !.calls = @ + 1, !.returned = @ + 1]
       ELSE IF StartsAttempt(mongo)
       THEN /\ mongo.attempts < MaxAttempts
            /\ LET a == mongo.attempts + 1
               IN  mongo' = [mongo EXCEPT !.calls = @ + 1, !.attempts = a,
                                          !.pending = @ \cup {a}, !.promise = a,
                                          !.waiters[a] = @ + 1]
       ELSE mongo' = [mongo EXCEPT !.calls = @ + 1,
                                   !.waiters[mongo.promise] = @ + 1]
    /\ UNCHANGED DbOthers

\* mongoose.connect resolves: every call awaiting it stores the connection
\* in cache.conn and returns it.
AttemptSucceeds(a) ==
    /\ ~mongo.exited
    /\ a \in mongo.pending
    /\ mongo' = [mongo EXCEPT !.pending = @ \ {a}, !.conn = TRUE,
                              !.returned = @ + mongo.waiters[a],
                              !.waiters[a] = 0]
    /\ UNCHANGED DbOthers

\* mongoose.connect rejects: the catch of the promise and the catch of
\* every call awaiting it set cache.promise to null, and the calls throw.
AttemptFails(a) ==
    /\ ~mongo.exited
    /\ a \in mongo.pending
    /\ mongo' = [mongo EXCEPT !.pending = @ \ {a}, !.promise = 0,
                              !.thrown = @ + mongo.waiters[a],
                              !.waiters[a] = 0]
    /\ UNCHANGED DbOthers

\* SIGINT: disconnectFromDatabase up to its await of mongoose.disconnect
\* when a connection is cached; with none cached it returns and the
\* handler exits the process.
Sigint ==
    /\ ~mongo.exited
    /\ mongo.closing < MaxSigints
    /\ mongo' = IF mongo.conn
                THEN [mongo EXCEPT !.closing = @ + 1]
                ELSE [mongo EXCEPT !.exited = TRUE]
    /\ UNCHANGED DbOthers

\* mongoose.disconnect resolves: conn and promise are set to null and the
\* handler exits the process.
Disconnected ==
    /\ ~mongo.exited
    /\ mongo.closing > 0
    /\ mongo' = [mongo EXCEPT !.conn = FALSE, !.promise = 0, !.exited = TRUE]
    /\ UNCHANGED DbOthers

(***************************************************************************)
(* Authentication and the permission guard.                                *)
(***************************************************************************)
\* generateToken: the payload signed at login carries the id, the role and
\* the permission flags the stored user has at that moment.
generateToken(u, user) ==
    [id |-> u, role |-> user.role, permissions |-> user.permissions]

\* POST /api/auth/login with the phone and the password of a stored user:
\* refused for a user that is not active, else the auth_token cookie is set.
Login(u) ==
    /\ users[u].life = "live"
    /\ users[u].isActive
    /\ tokens' = [tokens EXCEPT ![u] = generateToken(u, users[u])]
    /\ UNCHANGED <<docs, procs, audit, requests, files, refused, users, reply,
                   inits, mongo>>

\* getUserFromRequest: the verified payload of the cookie of the request,
\* or none; the stored user is not read.  A client sends the cookie it
\* holds, or no cookie.
Cookies == {NoToken} \cup {tokens[u] : u \in UserIds}

\* A guard that asks for a login and for no flag.
requirePermissionLoginOnly(tok, key) == IF tok = NoToken THEN 401 ELSE 0

\* requirePermission: 401 without a user, 403 without the flag, else (0)
\* the handler goes on.
requirePermission(tok, key) ==
    IF tok = NoToken THEN 401
    ELSE IF ~tok.permissions[key] THEN 403
    ELSE 0

\* The first statement of a guarded handler: the request op of token tok
\* is answered 401 or 403 and the handler returns, or Handler runs.
Guarded(op, key, tok, Handler) ==
    /\ reply.n < MaxAsked
    /\ reply' = [n |-> reply.n + 1, op |-> op, by |-> tok,
                 refused |-> requirePermission(tok, key)]
    /\ IF requirePermission(tok, key) # 0
       THEN UNCHANGED <<docs, procs, audit, requests, files, refused, users, aside>>
       ELSE Handler

\* POST /api/documents/upload
GuardedUpload(tok, d, f, t, p) ==
    Guarded("upload", "canUpload", tok, UploadPermitted(d, f, t, p))

\* POST /api/documents/process
GuardedReprocess(tok, d, p) ==
    Guarded("reprocess", "canReprocessDocuments", tok, ReprocessPermitted(d, p))

\* GET /api/documents/{id}
GuardedView(tok, d) == Guarded("view", "canViewDocuments", tok, ViewPermitted(d))

\* PUT /api/documents/{id}
GuardedPut(tok, d, body) == Guarded("put", "canViewDocuments", tok, PutPermitted(d, body))

\* DELETE /api/documents/{id}
GuardedDelete(tok, d) == Guarded("delete", "canDeleteDocuments", tok, DeletePermitted(d))

\* DELETE /api/documents
GuardedBatchDelete(tok, ids) ==
    Guarded("batch_delete", "canDeleteDocuments", tok, BatchDeletePermitted(ids))

\* POST /api/documents/export: reads the documents and writes nothing.
GuardedExport(tok) ==
    Guarded("export", "canExportDocuments", tok,
            UNCHANGED <<docs, procs, audit, requests, files, refused, users, aside>>)

\* POST /api/users
GuardedCreateUser(tok, u, body) ==
    Guarded("user_create", "canManageUsers", tok, CreateUserPermitted(u, body))

\* PUT /api/users/{id}
GuardedUpdateUser(tok, u, body) ==
    Guarded("user_update", "canManageUsers", tok, UpdateUserPermitted(u, body))

\* DELETE /api/users/{id}
GuardedDeleteUser(tok, u) ==
    Guarded("user_delete", "canManageUsers", tok, DeleteUserPermitted(u))

(***************************************************************************)
(* Specifications.                                                         *)
(***************************************************************************)
Request(E) ==
    \/ \E d \in E.docs, f \in E.files, t \in E.types, p \in ProcIds : Upload(d, f, t, p)
    \/ \E d \in E.docs, p \in ProcIds : Reprocess(d, p)
    \/ \E d \in E.docs, body \in PutBodies : Put(d, body)
    \/ \E d \in E.docs : View(d)
    \/ \E d \in E.docs : Delete(d)

Pipeline(E) ==
    \/ \E p \in ProcIds : Load(p)
    \/ \E p \in ProcIds : LogStep(p)
    \/ \E p \in ProcIds : OcrStep(p, E)
    \/ \E p \in ProcIds : ParseStep(p, E)
    \/ \E p \in ProcIds : Return(p)

\* Requests arrive at any time: invocations and edits interleave freely.
Next == Request(RaceInputs) \/ Pipeline(RaceInputs)

Spec == Init /\ [][Next]_vars

\* Requests arrive only while no invocation is in flight: every invocation
\* runs from its findById to its end with no other writer of the store.
NextSeq == (Quiet /\ Request(SeqInputs)) \/ Pipeline(SeqInputs)

SpecSeq == Init /\ [][NextSeq]_vars

\* As SpecSeq, and any AuditLog.log call of the pipeline or of the upload
\* handler may throw.
NextFaults ==
    \/ Quiet /\ Request(SeqInputs)
    \/ Quiet /\ \E d \in SeqInputs.docs, f \in SeqInputs.files, t \in SeqInputs.types :
                    UploadAuditThrows(d, f, t)
    \/ Pipeline(SeqInputs)
    \/ \E p \in ProcIds : LogThrows(p)

SpecFaults == Init /\ [][NextFaults]_vars

\* The inputs of the upload specification: every kind of file, one outcome
\* of each kind for the remote calls.
UploadInputs ==
    [types |-> {"invoice", "other"}, cls |-> {"resume"}, texts |-> {"textA"},
     msgs |-> {"timeout"}, results |-> {"r1"}, docs |-> DocIds, files |-> UploadFiles]

\* Upload requests with any file, answered 201, 400 or 500, each followed
\* by the invocation it starts.
NextUpload ==
    \/ Quiet /\ \E d \in DocIds, f \in UploadFiles, t \in UploadInputs.types, p \in ProcIds :
                    Upload(d, f, t, p)
    \/ Quiet /\ \E f \in UploadFiles : UploadRefused(f)
    \/ Quiet /\ \E d \in DocIds, f \in UploadFiles, t \in UploadInputs.types :
                    UploadAuditThrows(d, f, t)
    \/ Pipeline(UploadInputs)

SpecUpload == Init /\ [][NextUpload]_vars

\* System initialization, user creation, update and deletion in any order.
NextUsers ==
    \/ \E u \in UserIds : InitSystem(u)
    \/ \E u \in UserIds, body \in CreateBodies : CreateUser(u, body)
    \/ \E u \in UserIds, body \in UpdateBodies : UpdateUser(u, body)
    \/ \E u \in UserIds : DeleteUser(u)

SpecUsers == Init /\ [][NextUsers]_vars

\* The inputs of the store specification: two documents with different
\* files, one outcome of each kind for the remote calls.
StoreInputs ==
    [types |-> {"invoice"}, cls |-> {"resume"}, texts |-> {"textA"},
     msgs |-> {"timeout"}, results |-> {"r1"}, docs |-> DocIds,
     files |-> {f \in UploadFiles : Refusal(f) = "none"}]

\* Every request on the store, single and batch: the edits at any time, the
\* other requests while no invocation is in flight.
NextStore ==
    \/ Quiet /\ Request(StoreInputs)
    \/ \E d \in DocIds, body \in PutBodies : Put(d, body)
    \/ Quiet /\ \E ids \in SUBSET DocIds : BatchDelete(ids)
    \/ Pipeline(StoreInputs)

SpecStore == Init /\ [][NextStore]_vars

\* The inputs of the guarded specification: one document, one outcome of
\* each kind for the remote calls, one edit, one new user.
AuthInputs ==
    [types |-> {"invoice"}, cls |-> {"resume"}, texts |-> {"textA"},
     msgs |-> {"timeout"}, results |-> {"r1"}, docs |-> 1..MaxRaced,
     files |-> {GoodFile}]

AuthPutBodies ==
    {b \in PutBodies : /\ b.hasType /\ b.documentType = "certificate"
                       /\ b.parsedData = "object" /\ b.key = "invoice"
                       /\ b.fileName = ""}

AuthCreateBodies ==
    {b \in CreateBodies : b.phone = "13900139000" /\ b.name = "Li"}

AuthUpdateBodies ==
    {b \in UpdateBodies : b.name = "" /\ b.isActive \in {"absent", "false"}}

\* Every guarded request, sent by any client with the cookie it holds or
\* with none, logins and the system initialization, at any time.
NextAuth ==
    \/ \E u \in UserIds : InitSystem(u)
    \/ \E u \in UserIds : Login(u)
    \/ \E tok \in Cookies, d \in AuthInputs.docs, t \in AuthInputs.types, p \in ProcIds :
          GuardedUpload(tok, d, GoodFile, t, p)
    \/ \E tok \in Cookies, d \in AuthInputs.docs, p \in ProcIds :
          GuardedReprocess(tok, d, p)
    \/ \E tok \in Cookies, d \in AuthInputs.docs : GuardedView(tok, d)
    \/ \E tok \in Cookies, d \in AuthInputs.docs, body \in AuthPutBodies :
          GuardedPut(tok, d, body)
    \/ \E tok \in Cookies, d \in AuthInputs.docs : GuardedDelete(tok, d)
    \/ \E tok \in Cookies, ids \in SUBSET AuthInputs.docs : GuardedBatchDelete(tok, ids)
    \/ \E tok \in Cookies : GuardedExport(tok)
    \/ \E tok \in Cookies, u \in UserIds, body \in AuthCreateBodies :
          GuardedCreateUser(tok, u, body)
    \/ \E tok \in Cookies, u \in UserIds, body \in AuthUpdateBodies :
          GuardedUpdateUser(tok, u, body)
    \/ \E tok \in Cookies, u \in UserIds : GuardedDeleteUser(tok, u)
    \/ Pipeline(AuthInputs)

SpecAuth == Init /\ [][NextAuth]_vars

\* Some stored user may manage users (and may have logged in).
Managed ==
    \E a \in UserIds : /\ users[a].life = "live" /\ users[a].isActive
                        /\ users[a].permissions.canManageUsers

\* Init requests that overlap in any way, and the user requests of a
\* manager once there is one.
NextInit ==
    \/ \E i \in InitIds : InitStart(i)
    \/ \E i \in InitIds : InitCount(i)
    \/ \E i \in InitIds : InitFind(i)
    \/ \E i \in InitIds : InitCreate(i)
    \/ Managed /\ \E u \in UserIds, body \in AuthCreateBodies : CreateUser(u, body)
    \/ Managed /\ \E u \in UserIds, body \in AuthUpdateBodies : UpdateUser(u, body)
    \/ Managed /\ \E u \in UserIds : DeleteUser(u)

SpecInit == Init /\ [][NextInit]_vars

\* Calls of connectToDatabase at any time, the outcomes of the connection
\* attempts, and the signals that end the process.
NextConnect ==
    \/ Connect
    \/ \E a \in AttemptIds : AttemptSucceeds(a)
    \/ \E a \in AttemptIds : AttemptFails(a)
    \/ Sigint
    \/ Disconnected

SpecConnect == Init /\ [][NextConnect]_vars

(***************************************************************************)
(* Vocabulary of the properties.                                           *)
(***************************************************************************)
Live(d) == docs[d].life = "live"

\* The document was changed by a user edit (PUT) at some time.
Edited(d) ==
    \E i \in 1..Len(audit) : audit[i].doc = d /\ audit[i].action = "update"

\* parsedData holds an entry under the key of the document's type.
HasEntry(doc) ==
    doc.parsedData.present /\ doc.parsedData.key = KeyOf(doc.documentType)

\* The invocation has made its last write and has only its last log entry,
\* or nothing, left to do.
AtEnd(p) ==
    procs[p].pc \in {"audit_ocr_failed", "audit_parse_failed", "audit_parse_ok",
                     "returning"}

(***************************************************************************)
(* C1.  Every stored document has status failed if and only if its error   *)
(* field is present.  Stated here for the documents no user edit has       *)
(* touched, with requests served one at a time: the pipeline alone breaks  *)
(* it, because updateParsedData sets status completed and leaves the error *)
(* of an earlier failure in place.                                         *)
(***************************************************************************)
C1_FailedIffError ==
    \A d \in DocIds :
        (Live(d) /\ ~Edited(d)) =>
            ((docs[d].status = "failed") <=> docs[d].error.present)

(***************************************************************************)
(* C2.  Every stored document whose status is completed has a parsedData   *)
(* entry under the key of its current documentType.  Stated for the        *)
(* documents no user edit has touched: the pipeline stores the result      *)
(* under the key "financial_report" or "other", which the schema drops.    *)
(***************************************************************************)
C2_CompletedHasEntry ==
    \A d \in DocIds :
        (Live(d) /\ ~Edited(d) /\ docs[d].status = "completed") => HasEntry(docs[d])

(***************************************************************************)
(* C3.  No process invocation on an existing document ends leaving the     *)
(* document in processing with no error recorded, whatever the remote      *)
(* calls answer.  (Status processing is never written again once left, so  *)
(* the state of a document whose invocation has ended shows how it ended.) *)
(***************************************************************************)
C3_EndsTerminal ==
    \A p \in ProcIds :
        (procs[p].pc = "done" /\ procs[p].result # "notfound" /\ Live(procs[p].doc)) =>
            ~(docs[procs[p].doc].status = "processing"
              /\ ~docs[procs[p].doc].error.present)

C5_ParseFailureLeavesUnset ==
    \A p \in ProcIds :
        procs[p].pc = "audit_parse_failed" =>
            LET doc == docs[procs[p].doc]
            IN  /\ doc.status = "failed"
                /\ doc.error.stage = "ai_parse"
                /\ doc.ocrResult = [present |-> TRUE, mdResults |-> procs[p].ocrOut.val]
                /\ ~doc.parsedData.present

\* The message of the call that failed in step 2.
ParseFailureMessage(me) ==
    IF me.clsOut.kind = "fail" THEN me.clsOut.msg ELSE me.extOut.msg

(***************************************************************************)
(* C5, amended.  With no other writer of the document during the           *)
(* invocation: when the OCR call succeeded and the classification or       *)
(* extraction call threw, the document is left with status failed,         *)
(* error.stage ai_parse, ocrResult the new OCR output, and parsedData as   *)
(* the invocation found it: unset for a document never processed before,   *)
(* that of the earlier run otherwise.                                      *)
(***************************************************************************)
C5_ParseFailureKeepsParsed ==
    \A p \in ProcIds :
        procs[p].pc = "audit_parse_failed" =>
            LET doc == docs[procs[p].doc]
            IN  /\ procs[p].ocrOut.kind = "ok"
                /\ procs[p].clsOut.kind = "fail" \/ procs[p].extOut.kind = "fail"
                /\ doc.life = "live"
                /\ doc.status = "failed"
                /\ doc.error = [present |-> TRUE,
                                message |-> StoredMessage(ParseFailureMessage(procs[p])),
                                stage |-> "ai_parse"]
                /\ doc.ocrResult = [present |-> TRUE, mdResults |-> procs[p].ocrOut.val]
                /\ doc.parsedData = procs[p].local.parsedData
                /\ procs[p].loadedStatus = "processing" /\ ~Edited(procs[p].doc)
                     => ~doc.parsedData.present

\* A reprocess whose extraction call failed on a document that an earlier
\* run had completed with another OCR text: the new text is stored, the
\* earlier parsedData is still there.
C5_Witness ==
    \E p \in ProcIds :
        /\ procs[p].pc = "audit_parse_failed"
        /\ procs[p].extOut.kind = "fail"
        /\ procs[p].loadedStatus = "completed"
        /\ procs[p].ocrOut.val = "textB"
        /\ docs[procs[p].doc].ocrResult.mdResults = "textB"
        /\ docs[procs[p].doc].parsedData.present
        /\ docs[procs[p].doc].status = "failed"

(***************************************************************************)
(* C6.  A reprocess invocation never changes the stored status of its      *)
(* document directly from failed to completed: the status passes through   *)
(* processing first.                                                       *)
(***************************************************************************)
C6_NoDirectFailedToCompleted ==
    [][\A p \in ProcIds :
          (procs[p].kind = "reprocess" /\ procs'[p] # procs[p]) =>
              ~(docs[procs[p].doc].status = "failed"
                /\ docs'[procs[p].doc].status = "completed")]_vars

(***************************************************************************)
(* What processing a freshly uploaded document leaves in the record, by    *)
(* the outcomes of the calls: status, error, ocrResult, parsedData.        *)
(***************************************************************************)
FreshOutcome(me) ==
    IF me.pc = "audit_ocr_failed"
    THEN [status |-> "failed",
          error |-> [present |-> TRUE, message |-> StoredMessage(me.ocrOut.msg),
                     stage |-> "ocr"],
          ocrResult |-> NoOcr, parsedData |-> NoParsed]
    ELSE IF me.pc = "audit_parse_failed"
    THEN [status |-> "failed",
          error |-> [present |-> TRUE,
                     message |-> StoredMessage(ParseFailureMessage(me)),
                     stage |-> "ai_parse"],
          ocrResult |-> [present |-> TRUE, mdResults |-> me.ocrOut.val],
          parsedData |-> NoParsed]
    ELSE [status |-> "completed", error |-> NoError,
          ocrResult |-> [present |-> TRUE, mdResults |-> me.ocrOut.val],
          parsedData |-> CastParsed(me.clsOut.val, me.extOut.val)]

Outcome(doc) ==
    [status |-> doc.status, error |-> doc.error, ocrResult |-> doc.ocrResult,
     parsedData |-> doc.parsedData]

\* The table above is what the upload-triggered invocation of a new
\* document leaves (requests served one at a time).
FreshOutcomeIsWhatUploadLeaves ==
    \A p \in ProcIds :
        (AtEnd(p) /\ procs[p].kind = "upload") =>
            Outcome(docs[procs[p].doc]) = FreshOutcome(procs[p])

(***************************************************************************)
(* C7.  When process is re-invoked on a failed document, the status,       *)
(* error, ocrResult and parsedData it leaves are those a freshly uploaded  *)
(* document of the same type gets from the same call outcomes.  Stated for *)
(* the case the claim singles out, the re-invocation whose calls all       *)
(* succeed: no error of the prior failure is kept.                         *)
(***************************************************************************)
C7_ReprocessForgetsFailure ==
    \A p \in ProcIds :
        (procs[p].pc = "audit_parse_ok" /\ procs[p].loadedStatus = "failed"
         /\ ~Edited(procs[p].doc)) =>
            Outcome(docs[procs[p].doc]) = FreshOutcome(procs[p])

(***************************************************************************)
(* C8.  For a document uploaded with type other: when OCR succeeds,        *)
(* classification returns a type T of the enumeration and extraction for T *)
(* returns a record R, the document ends with documentType T, status       *)
(* completed and parsedData[T] = R.                                        *)
(***************************************************************************)
C8_ClassifiedAndStored ==
    \A p \in ProcIds :
        (/\ procs[p].kind = "upload"
         /\ procs[p].clsOut.kind = "ok" /\ procs[p].clsOut.val \in DocTypes
         /\ procs[p].extOut.kind = "ok"
         /\ procs[p].pc = "returning") =>
            LET doc == docs[procs[p].doc]
            IN  /\ doc.documentType = procs[p].clsOut.val
                /\ doc.status = "completed"
                /\ doc.parsedData = [present |-> TRUE,
                                     key |-> KeyOf(procs[p].clsOut.val),
                                     val |-> procs[p].extOut.val]

(***************************************************************************)
(* Invocations by what they wrote last.                                    *)
(***************************************************************************)
HasTerminal(p) == procs[p].result \in {"completed", "failed_ocr", "failed_ai"}

StatusOf(result) == IF result = "completed" THEN "completed" ELSE "failed"

On(d) == {p \in ProcIds : procs[p].doc = d /\ procs[p].pc # "idle"}

Entries(d, stages) ==
    {i \in 1..Len(audit) :
        audit[i].doc = d /\ audit[i].action = "reparse" /\ audit[i].stage \in stages}

(***************************************************************************)
(* C9.  As claimed: when two invocations for the same document, both       *)
(* started on the unprocessed record, have made their last writes, the     *)
(* stored status, error and parsedData are together the values one of the  *)
(* two leaves: never the status of one with the error or parsedData of the *)
(* other.                                                                  *)
(***************************************************************************)
C9_OneInvocationWins ==
    \A p, q \in ProcIds :
        (/\ p # q /\ procs[p].doc = procs[q].doc
         /\ AtEnd(p) /\ AtEnd(q)
         /\ procs[p].loadedStatus = "processing" /\ procs[q].loadedStatus = "processing"
         /\ Live(procs[p].doc) /\ ~Edited(procs[p].doc)) =>
            \E r \in {p, q} :
                LET doc == docs[procs[p].doc]
                    one == FreshOutcome(procs[r])
                IN  /\ doc.status = one.status
                    /\ doc.error = one.error
                    /\ doc.parsedData = one.parsedData

(***************************************************************************)
(* C9, amended.  When invocations for the same document run concurrently   *)
(* the record is written field by field: the stored status is the terminal *)
(* status written by one of the invocations, while error and parsedData    *)
(* may be those of another one.  Each invocation appends its own audit     *)
(* entries, so audit entries are duplicated: one "started" entry for every *)
(* reprocess invocation that found the record, one closing entry for every *)
(* invocation that ended failed and every reprocess that ended completed.  *)
(***************************************************************************)
C9_FieldwiseLastWrite ==
    \A d \in DocIds :
        /\ (Live(d) /\ ~Edited(d) /\ \E p \in On(d) : HasTerminal(p)) =>
              \E p \in On(d) : HasTerminal(p) /\ docs[d].status = StatusOf(procs[p].result)
        /\ Cardinality(Entries(d, {"started"})) =
              Cardinality({p \in On(d) : /\ procs[p].kind = "reprocess"
                                         /\ procs[p].pc \notin {"start", "audit_start"}
                                         /\ procs[p].result # "notfound"})
        /\ Cardinality(Entries(d, {"ocr_failed", "ai_parse_failed", "ai_parse_completed"})) =
              Cardinality({p \in On(d) : /\ procs[p].pc = "done"
                                         /\ HasTerminal(p)
                                         /\ ~(procs[p].kind = "upload"
                                              /\ procs[p].result = "completed")})

\* Two invocations on one record have made their last writes, one failed
\* and one completed, and the record shows completed with the other's error.
C9_Witness ==
    \E p, q \in ProcIds :
        /\ p # q /\ procs[p].doc = procs[q].doc
        /\ AtEnd(p) /\ AtEnd(q)
        /\ procs[p].loadedStatus = "processing" /\ procs[q].loadedStatus = "processing"
        /\ procs[p].result = "completed" /\ procs[q].result = "failed_ocr"
        /\ docs[procs[p].doc].status = "completed"
        /\ docs[procs[p].doc].error.stage = "ocr"
        /\ docs[procs[p].doc].parsedData.present

(***************************************************************************)
(* C10.  A step in which a stored document leaves status failed.           *)
(***************************************************************************)
LeavesFailed(d) ==
    /\ docs[d].life = "live" /\ docs'[d].life = "live"
    /\ docs[d].status = "failed" /\ docs'[d].status # "failed"

(***************************************************************************)
(* C10.  As claimed: a document leaves status failed only in a step of a   *)
(* process invocation started by a reprocess request.                      *)
(***************************************************************************)
C10_OnlyReprocessLeavesFailed ==
    [][\A d \in DocIds :
          LeavesFailed(d) =>
              \E p \in ProcIds : /\ procs[p].kind = "reprocess" /\ procs[p].doc = d
                                 /\ procs'[p] # procs[p]]_vars

(***************************************************************************)
(* C10, amended.  A document leaves status failed only by becoming         *)
(* completed, and only through the parsed-data write of a process          *)
(* invocation (started by a reprocess request or by the upload) or through *)
(* a user edit whose body carries parsedData; a user edit without          *)
(* parsedData, a view and a delete request do not change the status of a   *)
(* failed document.                                                        *)
(***************************************************************************)
C10_WhatLeavesFailed ==
    [][\A d \in DocIds :
          LeavesFailed(d) =>
              /\ docs'[d].status = "completed"
              /\ \/ \E p \in ProcIds :
                       /\ procs[p].doc = d /\ procs[p].pc = "parse"
                       /\ procs'[p].pc \in {"audit_parse_ok", "returning"}
                 \/ audit' = Append(audit, [doc |-> d, action |-> "update",
                                            stage |-> "parsedData"])]_vars

\* A failed document was made completed by a user edit with parsedData:
\* the last log entry is that edit, the error of the failure is still there.
C10_Witness ==
    \E d \in DocIds :
        /\ Live(d) /\ docs[d].status = "completed" /\ docs[d].error.present
        /\ docs[d].parsedData.val \in PutVals
        /\ Len(audit) > 0
        /\ audit[Len(audit)] = [doc |-> d, action |-> "update", stage |-> "parsedData"]

(***************************************************************************)
(* C11.  A failing audit-log write never fails the pipeline: an invocation *)
(* one of whose AuditLog.log calls threw goes on with its remaining steps  *)
(* and leaves the document as the invocation whose calls all succeed       *)
(* does.  In particular it does not end before the OCR step when the       *)
(* "started" entry cannot be written, a document whose parsed data was     *)
(* stored stays completed, and the error of the audit log is never stored  *)
(* as the document's error.                                                *)
(***************************************************************************)
C11_AuditFailureHarmless ==
    \A p \in ProcIds :
        (procs[p].threw # "" /\ Live(procs[p].doc) /\ ~Edited(procs[p].doc)) =>
            /\ ~(procs[p].threw = "audit_start" /\ procs[p].pc = "done"
                 /\ procs[p].result = "aborted")
            /\ procs[p].result = "completed" => docs[procs[p].doc].status = "completed"
            /\ docs[procs[p].doc].error.message # AuditErrMsg

(***************************************************************************)
(* C12.  OCR and extraction failures never reach the caller of the         *)
(* pipeline: no invocation ends with its promise rejected; an invocation   *)
(* whose call failed has, at its last write, stored the failure in the     *)
(* record's error field; and the request that started the invocation was   *)
(* answered with its success response (201 and status processing for an    *)
(* upload, 200 for a reprocess) before the first step of the invocation,   *)
(* the same whether the invocation later completes or fails.               *)
(***************************************************************************)
C12_FailuresStayInside ==
    \A p \in ProcIds :
        procs[p].pc # "idle" =>
            /\ procs[p].result # "rejected"
            /\ procs[p].response = StartResponse(procs[p].kind, "processing")
            /\ procs[p].response.code \in {200, 201}
            /\ (AtEnd(p) /\ procs[p].result \in {"failed_ocr", "failed_ai"}) =>
                   /\ docs[procs[p].doc].status = "failed"
                   /\ docs[procs[p].doc].error.present
                   /\ docs[procs[p].doc].error.stage =
                         (IF procs[p].result = "failed_ocr" THEN "ocr" ELSE "ai_parse")

\* An upload was answered 201 with status processing, and its invocation
\* has ended with the extraction failure written into the record.
C12_Witness ==
    \E p \in ProcIds :
        /\ procs[p].pc = "done" /\ procs[p].kind = "upload"
        /\ procs[p].result = "failed_ai"
        /\ procs[p].response = [code |-> 201, status |-> "processing"]
        /\ docs[procs[p].doc].error.stage = "ai_parse"

(***************************************************************************)
(* C13.  Every accepted upload (one answered 201) creates exactly one      *)
(* document record, with status processing, appends exactly one upload     *)
(* audit entry for it and starts exactly one process invocation for it;    *)
(* the response is given before the invocation takes a step and reports    *)
(* status processing.  Conversely an upload invocation is started, and an  *)
(* upload entry written, only by such a step.                              *)
(***************************************************************************)
Created(d) == docs[d].life = "absent" /\ docs'[d].life = "live" /\ refused' = refused

C14_RefusedBeforeAnything ==
    /\ [](\A d \in DocIds :
             Live(d) => /\ docs[d].fileName # ""
                        /\ docs[d].fileType \in allowedFileTypes
                        /\ docs[d].metadata.fileSize <= maxFileSize
                        /\ docs[d].fileUrl \in files)
    /\ [][(Len(refused') > Len(refused) /\ refused'[Len(refused')].code = 400) =>
             /\ UNCHANGED <<docs, procs, audit, files>>
             /\ refused'[Len(refused')].error \in {"no_file", "bad_type", "too_large"}]_vars

\* Three uploads were refused, one for each reason, and the store, the
\* upload directory and the audit log are still empty.
C14_Witness ==
    /\ {refused[i] : i \in 1..Len(refused)} =
          {[code |-> 400, error |-> e] : e \in {"no_file", "bad_type", "too_large"}}
    /\ \A d \in DocIds : docs[d].life = "absent"
    /\ files = {} /\ audit = << >>
    /\ \A p \in ProcIds : procs[p].pc = "idle"

(***************************************************************************)
(* C15.  A step in which the parsedData of a stored document becomes       *)
(* present.                                                                *)
(***************************************************************************)
GetsParsedData(d) ==
    /\ docs[d].life = "live" /\ docs'[d].life = "live"
    /\ ~docs[d].parsedData.present /\ docs'[d].parsedData.present

(***************************************************************************)
(* C15.  As claimed: parsedData becomes present only where an extraction   *)
(* call for that document has succeeded; no other operation makes it       *)
(* present.                                                                *)
(***************************************************************************)
C15_OnlyAfterExtraction ==
    [][\A d \in DocIds :
          GetsParsedData(d) =>
              \E p \in ProcIds : procs'[p].doc = d /\ procs'[p].extOut.kind = "ok"]_vars

(***************************************************************************)
(* C15, amended.  parsedData becomes present only through the parsed-data  *)
(* write of a process invocation whose extraction step returned (the       *)
(* record of a parser, or null for a type without parser, stored as the    *)
(* empty object) or through a user edit whose body carries a parsedData    *)
(* object; no other step of the pipeline and no other request makes it     *)
(* present.                                                                *)
(***************************************************************************)
C15_WhatSetsParsedData ==
    [][\A d \in DocIds :
          GetsParsedData(d) =>
              \/ \E p \in ProcIds :
                    /\ procs[p].doc = d /\ procs[p].pc = "parse"
                    /\ procs'[p].pc \in {"audit_parse_ok", "returning"}
                    /\ procs'[p].extOut.kind \in {"ok", "null"}
                    /\ docs'[d].parsedData =
                          CastParsed(procs'[p].clsOut.val, procs'[p].extOut.val)
              \/ /\ audit' = Append(audit, [doc |-> d, action |-> "update",
                                             stage |-> "parsedData"])
                 /\ docs'[d].parsedData \in
                       {CastParsed(k, IF k = "" THEN "" ELSE v) :
                           k \in PutKeys, v \in PutVals}]_vars

\* A document has parsedData from a user edit although no OCR result was
\* ever stored for it, hence no extraction ever ran.
C15_Witness ==
    \E d \in DocIds :
        /\ Live(d) /\ docs[d].parsedData.present
        /\ docs[d].parsedData.val \in PutVals
        /\ ~docs[d].ocrResult.present /\ ~docs[d].metadata.ocrProcessedAt
        /\ ~docs[d].error.present

(***************************************************************************)
(* C16.  In every reachable state, under any interleaving of process       *)
(* invocations and user edits, a stored document whose parsedData is       *)
(* present has status completed or failed, never processing.               *)
(***************************************************************************)
C16_ParsedNeverProcessing ==
    \A d \in DocIds :
        (Live(d) /\ docs[d].parsedData.present) =>
            docs[d].status \in {"completed", "failed"}

\* A document still in processing was completed by a user edit with
\* parsedData while its invocation was under way, and the invocation then
\* failed: parsedData is present and the status is failed.
C16_Witness ==
    \E d \in DocIds, p \in ProcIds :
        /\ Live(d) /\ docs[d].parsedData.val \in PutVals
        /\ docs[d].status = "failed"
        /\ procs[p].doc = d /\ procs[p].kind = "upload"
        /\ procs[p].loadedStatus = "processing"
        /\ procs[p].pc = "audit_ocr_failed"

(***************************************************************************)
(* C17.  The fileName, fileUrl and fileType of a document never change     *)
(* after the record is created: no step of a process invocation, no user   *)
(* edit (whatever its body, one naming fileName included) and no read      *)
(* changes them while the record is in the store.                          *)
(***************************************************************************)
C17_FileFieldsFrozen ==
    [][\A d \in DocIds :
          (docs[d].life = "live" /\ docs'[d].life = "live") =>
              /\ docs'[d].fileName = docs[d].fileName
              /\ docs'[d].fileUrl = docs[d].fileUrl
              /\ docs'[d].fileType = docs[d].fileType]_vars

\* Two documents with different files; the first was processed to the end
\* and edited by the user, and still has the file it was uploaded with.
C17_Witness ==
    /\ Live(1) /\ Live(2)
    /\ docs[1].fileName # docs[2].fileName
    /\ docs[1].fileName \in {f.name : f \in UploadFiles} \ {""}
    /\ docs[1].fileUrl = UrlOf(1)
    /\ docs[1].status = "completed" /\ docs[1].ocrResult.present
    /\ Edited(1)

(***************************************************************************)
(* C18.  The audit log is append-only: every step leaves the entries it    *)
(* finds in place and in order and can only add entries at the end.  A     *)
(* step that deletes documents (single or batch delete) removes the        *)
(* records only: it appends exactly one delete entry for every document it *)
(* deletes and none for any other, and leaves the other documents and the  *)
(* stored files as they are.                                               *)
(***************************************************************************)
Added == SubSeq(audit', Len(audit) + 1, Len(audit'))

Deleted == {d \in DocIds : docs[d].life = "live" /\ docs'[d].life = "deleted"}

C19_PermissionsFollowRole ==
    \A u \in UserIds :
        users[u].life = "live" =>
            /\ users[u].role \in Roles
            /\ users[u].permissions = ROLE_PERMISSIONS[users[u].role]

\* Beside the administrator of the initialization there is a user whose
\* role was changed: created as guest or operation (an admin cannot be
\* created), it is an admin now and can manage users.
C19_Witness ==
    \E u, v \in UserIds :
        /\ u # v
        /\ users[u].life = "live" /\ users[u].phone = adminPhone
        /\ users[v].life = "live" /\ users[v].phone # adminPhone
        /\ users[v].role = "admin"
        /\ users[v].permissions.canManageUsers

(***************************************************************************)
(* C20.  The extraction step of invocation p is taken.                     *)
(***************************************************************************)
Extracts(p) == procs[p].pc = "parse" /\ procs'[p].pc # "parse"

(***************************************************************************)
(* C20.  The extraction step calls the classification collaborator if and  *)
(* only if the documentType of the record is other when the step begins.   *)
(* For a document of any other type the classification is not called, the  *)
(* extraction is called with the type of the record and the stored         *)
(* documentType is after the step what it was before it.  (An invocation   *)
(* that classified and could not store anything has returned through the   *)
(* outer catch.)                                                           *)
(***************************************************************************)
C20_ClassifiesOnlyOther ==
    [][\A p \in ProcIds :
          Extracts(p) =>
              LET d == procs[p].doc
                  t == docs[d].documentType
              IN  /\ t = "other" =>
                        \/ procs'[p].clsOut.kind \in {"ok", "fail"}
                        \/ procs'[p].pc = "done" /\ procs'[p].result = "aborted"
                  /\ t # "other" =>
                        /\ procs'[p].pc # "done"
                        /\ procs'[p].clsOut = [kind |-> "skipped", val |-> t, msg |-> ""]
                        /\ procs'[p].extOut.kind \in {"ok", "fail"}
                        /\ docs'[d].documentType = t]_vars

\* A document uploaded as a resume has been extracted as a resume without
\* classification and is stored as a resume with the parsed resume.
C20_Witness ==
    \E p \in ProcIds :
        /\ procs[p].pc = "returning"
        /\ procs[p].loadedType = "resume"
        /\ procs[p].clsOut.kind = "skipped" /\ procs[p].clsOut.val = "resume"
        /\ procs[p].extOut.kind = "ok"
        /\ docs[procs[p].doc].documentType = "resume"
        /\ docs[procs[p].doc].parsedData.key = "resume"

(***************************************************************************)
(* C21.  Where an invocation stands with respect to its OCR call.          *)
(***************************************************************************)
BeforeOcr(q) == q.pc \in {"idle", "start", "audit_start", "ocr"}

AfterOcr(q) ==
    \/ q.pc \in {"audit_ocr_ok", "audit_ocr_failed", "parse", "audit_parse_ok",
                 "audit_parse_failed", "returning"}
    \/ q.pc = "done" /\ q.result \in {"completed", "failed_ocr", "failed_ai"}

(***************************************************************************)
(* C21.  Within one invocation the OCR collaborator is called exactly once *)
(* (never before the OCR step, once from then on, also when the record     *)
(* already holds an ocrResult), the classification and the extraction      *)
(* collaborators at most once each and only after the OCR call, and after  *)
(* a failed OCR step neither of the two is called: no call is retried.     *)
(***************************************************************************)
C21_CallsOnce ==
    \A p \in ProcIds :
        LET q == procs[p]
        IN  /\ q.calls.ocr <= 1 /\ q.calls.cls <= 1 /\ q.calls.ext <= 1
            /\ BeforeOcr(q) => q.calls = NoCalls
            /\ AfterOcr(q) => q.calls.ocr = 1
            /\ q.calls.cls + q.calls.ext > 0 => q.calls.ocr = 1
            /\ q.ocrOut.kind = "fail" \/ q.result = "failed_ocr" =>
                    q.calls.cls = 0 /\ q.calls.ext = 0
            /\ q.clsOut.kind = "fail" => q.calls.cls = 1 /\ q.calls.ext = 0
            /\ q.extOut.kind = "fail" => q.calls.ext = 1

\* A document processed to the end by its upload is reprocessed: the record
\* holds the ocrResult of the first run, and the second invocation has
\* called the OCR collaborator once all the same.
C21_Witness ==
    \E p, r \in ProcIds :
        /\ p # r
        /\ procs[p].pc = "done" /\ procs[p].kind = "upload"
        /\ procs[p].result = "completed" /\ procs[p].calls.ocr = 1
        /\ procs[r].kind = "reprocess" /\ procs[r].doc = procs[p].doc
        /\ procs[r].pc = "audit_ocr_ok" /\ procs[r].calls.ocr = 1
        /\ procs[r].loadedStatus = "completed"

(***************************************************************************)
(* C22.  The audit stage that records a terminal outcome.                  *)
(***************************************************************************)
OutcomeStage(result) ==
    CASE result = "completed" -> "ai_parse_completed"
      [] result = "failed_ocr" -> "ocr_failed"
      [] result = "failed_ai" -> "ai_parse_failed"

(***************************************************************************)
(* C22.  Every invocation that has returned with a terminal outcome        *)
(* (completed, failed at stage ocr, failed at stage ai_parse) has appended *)
(* an audit entry for its document recording that outcome, whether it was  *)
(* started by an upload or by a reprocess request.                         *)
(***************************************************************************)
C22_OutcomeAudited ==
    \A p \in ProcIds :
        /\ procs[p].pc = "done"
        /\ procs[p].result \in {"completed", "failed_ocr", "failed_ai"}
        => \E i \in 1..Len(audit) :
              audit[i] = [doc |-> procs[p].doc, action |-> "reparse",
                          stage |-> OutcomeStage(procs[p].result)]

(***************************************************************************)
(* C23.  The OCR step of invocation p is taken and succeeds: the result is *)
(* stored and the invocation goes on.                                      *)
(***************************************************************************)
OcrSucceeds(p) ==
    /\ procs[p].pc = "ocr"
    /\ procs'[p].pc \in {"audit_ocr_ok", "parse"}

\* An upload's invocation between its OCR step and its extraction step.
BetweenSteps(p) == procs[p].kind = "upload" /\ procs[p].pc = "parse"

(***************************************************************************)
(* C23.  A successful OCR step writes the ocrResult and the OCR stamp of   *)
(* the metadata of its document and nothing else: status, error,           *)
(* parsedData, documentType, the file fields and the other metadata are    *)
(* what they were, and the other documents are untouched.  Hence a freshly *)
(* uploaded document, between the OCR step and the extraction step of its  *)
(* invocation, has status processing, ocrResult set, parsedData unset and  *)
(* no error.                                                               *)
(***************************************************************************)
C23_OcrWritesOcrOnly ==
    /\ [](\A p \in ProcIds :
            BetweenSteps(p) =>
                LET doc == docs[procs[p].doc]
                IN  /\ doc.life = "live"
                    /\ doc.status = "processing"
                    /\ doc.ocrResult.present
                    /\ doc.ocrResult = [present |-> TRUE,
                                        mdResults |-> procs[p].ocrOut.val]
                    /\ doc.metadata.ocrProcessedAt
                    /\ doc.parsedData = NoParsed
                    /\ doc.error = NoError)
    /\ [][\A p \in ProcIds :
            OcrSucceeds(p) =>
                LET d == procs[p].doc
                IN  /\ docs'[d] = [docs[d] EXCEPT
                                      !.ocrResult = docs'[d].ocrResult,
                                      !.metadata.ocrProcessedAt = TRUE]
                    /\ docs'[d].ocrResult = [present |-> TRUE,
                                             mdResults |-> procs'[p].ocrOut.val]
                    /\ \A e \in DocIds \ {d} : docs'[e] = docs[e]]_vars

\* A document completed by its upload is reprocessed and the OCR step of the
\* second invocation has succeeded: the record holds the new text and is
\* still completed with the parsedData of the first run.
C23_Witness ==
    \E p, r \in ProcIds :
        /\ procs[r].kind = "upload" /\ procs[r].result = "completed"
        /\ procs[p].kind = "reprocess" /\ procs[p].pc = "audit_ocr_ok"
        /\ procs[p].doc = procs[r].doc
        /\ docs[procs[p].doc].status = "completed"
        /\ docs[procs[p].doc].parsedData.present
        /\ docs[procs[p].doc].ocrResult.mdResults = procs[p].ocrOut.val

(***************************************************************************)
(* C28.  A deleted document stays deleted: no step changes the place of a  *)
(* deleted record in the store, whatever invocation on that document is in *)
(* flight when it is deleted and whatever it tries to write afterwards.    *)
(***************************************************************************)
C28_DeletedStaysDeleted ==
    [][\A d \in DocIds :
          docs[d].life = "deleted" => docs'[d] = docs[d]]_vars

\* A document was deleted after the OCR call of its invocation was made:
\* the invocation had a write to make, the write failed for want of the
\* record, and the invocation returned through its outer catch.
C28_Witness ==
    \E p \in ProcIds :
        /\ procs[p].pc = "done" /\ procs[p].result = "aborted"
        /\ procs[p].calls.ocr = 1
        /\ docs[procs[p].doc].life = "deleted"
        /\ docs[procs[p].doc] = [NoDoc EXCEPT !.life = "deleted"]

(***************************************************************************)
(* C27.  The stored users whose role is admin.                             *)
(***************************************************************************)
Admins == {u \in UserIds : users[u].life = "live" /\ users[u].role = "admin"}

(***************************************************************************)
(* C27.  At most one stored user has the role admin, and no request turns  *)
(* a stored user that is no admin into one or creates a second admin.      *)
(***************************************************************************)
C27_OneAdmin ==
    /\ [](Cardinality(Admins) <= 1)
    /\ [][Admins # {} => Admins' \subseteq Admins]_vars

(***************************************************************************)
(* C24.  The flag every guarded operation asks for.                        *)
(***************************************************************************)
RequiredFlag ==
    [upload |-> "canUpload", reprocess |-> "canReprocessDocuments",
     view |-> "canViewDocuments", put |-> "canViewDocuments",
     delete |-> "canDeleteDocuments", batch_delete |-> "canDeleteDocuments",
     export |-> "canExportDocuments", user_create |-> "canManageUsers",
     user_update |-> "canManageUsers", user_delete |-> "canManageUsers"]

\* The step serves a request that went through the permission guard.
Asks == reply'.n # reply.n

AsksAsGuest ==
    /\ Asks
    /\ reply'.by # NoToken
    /\ reply'.by.permissions = ROLE_PERMISSIONS.guest
    /\ users[reply'.by.id].life = "live"
    /\ users[reply'.by.id].isActive
    /\ users[reply'.by.id].permissions = ROLE_PERMISSIONS.guest

(***************************************************************************)
(* C25.  No request of a user with exactly the guest permissions changes a *)
(* stored field of a document.                                             *)
(***************************************************************************)
C25_GuestChangesNoDocument ==
    [][AsksAsGuest => docs' = docs]_vars

(***************************************************************************)
(* C26.  The stored user u holds the flag now: the record is in the store, *)
(* active, and its permissions have the flag.                              *)
(***************************************************************************)
HoldsNow(u, flag) ==
    /\ users[u].life = "live"
    /\ users[u].isActive
    /\ users[u].permissions[flag]

(***************************************************************************)
(* C26.  A guarded request passes the guard only if the stored record of   *)
(* its user holds the flag of the operation when the request is served:    *)
(* after a role change, a deactivation or a deletion, a request that needs *)
(* a flag the user no longer holds is refused, whatever its token says.    *)
(***************************************************************************)
C26_GuardFollowsStore ==
    [][Asks /\ reply'.refused = 0 =>
          HoldsNow(reply'.by.id, RequiredFlag[reply'.op])]_vars

(***************************************************************************)
(* C29.  The stored users, and the init requests that take a step.         *)
(***************************************************************************)
Stored == {u \in UserIds : users[u].life = "live"}

InitSteps == {i \in InitIds : inits'[i] # inits[i]}

(***************************************************************************)
(* C29.  The initialization creates the admin only in an empty store: an   *)
(* init request that finds a user when it counts is answered 400 and       *)
(* changes no user; no step of an init request changes the users except    *)
(* the insert into the empty store of one user, the admin; hence however   *)
(* the init requests on an empty store repeat and overlap, they leave one  *)
(* user, with role admin, and every one of them that is answered 200 has   *)
(* an admin to show.                                                       *)
(***************************************************************************)
C29_InitOnce ==
    /\ [](/\ Cardinality({u \in Stored : users[u].phone = adminPhone}) <= 1
          /\ \A i \in InitIds :
                inits[i].code = 200 =>
                    \E u \in Stored : users[u].role = "admin")
    /\ [][\A i \in InitSteps :
            /\ inits[i].pc = "count" /\ Stored # {} =>
                  inits'[i] = [pc |-> "done", code |-> 400]
            /\ \/ users' = users
               \/ /\ Stored = {}
                  /\ Cardinality(Stored') = 1
                  /\ \A u \in Stored' : /\ users'[u].role = "admin"
                                         /\ users'[u].phone = adminPhone
                  /\ inits'[i].code = 200]_vars

\* Three init requests, two of them overlapping on the empty store: one
\* inserted the admin (200), the other's insert failed on the phone (500),
\* the third came later (400); the store holds one user, the admin.
C29_Witness ==
    /\ \E i, j, k \in InitIds :
          /\ inits[i] = [pc |-> "done", code |-> 200]
          /\ inits[j] = [pc |-> "done", code |-> 500]
          /\ inits[k] = [pc |-> "done", code |-> 400]
    /\ Cardinality(Stored) = 1
    /\ \A u \in Stored : users[u].role = "admin"

(***************************************************************************)
(* C30.  What a step does to the connection attempts.                      *)
(***************************************************************************)
Issues == mongo'.attempts > mongo.attempts

\* The calls that await one of the attempts of S.
RECURSIVE Waiting(_)
Waiting(S) ==
    IF S = {} THEN 0
    ELSE LET a == CHOOSE x \in S : TRUE
         IN  mongo.waiters[a] + Waiting(S \ {a})

Fails == mongo'.pending # mongo.pending /\ ~mongo'.conn /\ ~mongo'.exited
         /\ mongo'.attempts = mongo.attempts

(***************************************************************************)
(* C30.  The calls of connectToDatabase that overlap share one attempt: at *)
(* most one mongoose.connect is pending at any time, it is the one whose   *)
(* promise is cached, and every call that waits, waits for it; a           *)
(* mongoose.connect is issued only while none is pending and no connection *)
(* is cached; when an attempt fails the cached promise is cleared, its     *)
(* calls throw, and the next call issues a new attempt; every call made    *)
(* has returned the connection, has thrown, or awaits the pending attempt. *)
(***************************************************************************)
C30_OneAttempt ==
    /\ [](/\ Cardinality(mongo.pending) <= 1
          /\ \A a \in mongo.pending : mongo.promise = a /\ mongo.waiters[a] >= 1
          /\ \A a \in AttemptIds \ mongo.pending : mongo.waiters[a] = 0
          /\ mongo.pending # {} => ~mongo.conn
          /\ mongo.calls = mongo.returned + mongo.thrown + Waiting(AttemptIds))
    /\ [][/\ Issues => mongo.pending = {} /\ ~mongo.conn
                        /\ mongo'.attempts = mongo.attempts + 1
          /\ Fails => mongo'.promise = 0 /\ mongo'.pending = {}
                       /\ mongo'.thrown > mongo.thrown
          /\ mongo.promise = 0 /\ ~mongo.conn /\ mongo'.calls > mongo.calls
                => Issues]_vars

\* The first attempt failed under two calls, which threw; two later calls
\* share the second attempt, which is pending.
C30_Witness ==
    /\ mongo.attempts = 2 /\ mongo.pending = {2} /\ mongo.promise = 2
    /\ mongo.thrown = 2 /\ mongo.waiters[2] = 2
    /\ mongo.calls = 4

====
